---------------------------- MODULE Spec2Model ----------------------------
(***************************************************************************)
(* ShopBot agent core: the retry wrapper (infra/utils/retry.ts), the item  *)
(* lookup tool (infra/tools/item-lookup.ts) and the LangGraph workflow run *)
(* by callAgent (infra/agent.ts): agent node <-> tools node, a checkpoint   *)
(* per thread, recursionLimit 15.                                          *)
(*                                                                         *)
(* Specifications:                                                         *)
(*   Spec        runs of callAgent on one thread (start, resume, finish)   *)
(*   PersistSpec the same with a checkpoint store that can reject a write  *)
(*   ResumeSpec  the same on a thread left by a run that hit the limit     *)
(*   ServerSpec  the two endpoints of the server and the clock             *)
(*   RetrySpec   retryWithBackoff alone, for any maxRetries and any        *)
(*               sequence of outcomes of the wrapped operation             *)
(*   LookupSpec  item_lookup alone, for any catalog, query and limit       *)
(*   GenSpec     the generation step alone, the clock and a fixed backend  *)
(*   ThreadsSpec runs of callAgent on two threads, their steps interleaved *)
(***************************************************************************)
EXTENDS Integers, Sequences, FiniteSets, TLC

VARIABLES
    pc,           \* position of callAgent: idle | agent | tools | returned | failed
    messages,     \* GraphState.messages of the run in memory
    store,        \* the thread's latest checkpoint: [messages, step]
    step,         \* the Pregel loop's step counter
    stop,         \* the Pregel loop's last allowed step
    result,       \* what callAgent returned or threw
    maxRetries,   \* retryWithBackoff: its parameter
    attempt,      \* retryWithBackoff: the loop variable
    rpc,          \* retryWithBackoff: idle | call | wait | returned | thrown
    rerr,         \* retryWithBackoff: the error thrown
    rval,         \* retryWithBackoff: the value returned
    invocations,  \* history: calls of fn made by the current retryWithBackoff call
    waits,        \* history: delays waited by the current retryWithBackoff call
    failures,     \* history: errors fn rejected with in the current retryWithBackoff call
    prior,        \* history: the messages saved for the thread when the run started
    genEntries,   \* history: calls of the agent node (callModel) in the run
    toolSteps,    \* history: executions of the tools node in the run
    allTool,      \* history: every backend response of the run requested a tool
    variations,   \* history: non-default backend / catalog choices in the run
    lpc,          \* item_lookup handler: idle | count | vector | text | done
    ldb,          \* item_lookup: the catalog as this call sees it
    lq,           \* item_lookup: the query argument
    ln,           \* item_lookup: the limit n after the parameter default
    lfound,       \* item_lookup: result of the vector search
    lenv,         \* item_lookup: the envelope built
    lout,         \* item_lookup: the string returned
    lraised,      \* item_lookup: an exception left the handler
    catalogCalls, \* history: the catalog calls the handler made, in order
    now,          \* server: the clock Date.now() reads, in milliseconds
    issued,       \* history: the threadIds POST /chat assigned, in order
    threads,      \* server: per threadId, the messages saved for it
    runs,         \* per threadId, the run of callAgent in progress on it
    backend,      \* the language model: a function of the request
    gens          \* history: the requests built for the backend and its decisions

agentVars == <<pc, messages, store, step, stop, result, prior, genEntries,
               toolSteps, allTool, variations>>
retryVars == <<maxRetries, attempt, rpc, rerr, rval, invocations, waits, failures>>
lookupVars == <<lpc, ldb, lq, ln, lfound, lenv, lout, lraised, catalogCalls>>
serverVars == <<now, issued, threads>>
concVars == <<runs>>
genVars == <<backend, gens>>
vars == <<pc, messages, store, step, stop, result, maxRetries, attempt, rpc,
          rerr, rval, invocations, waits, failures, prior, genEntries,
          toolSteps, allTool, variations, lpc, ldb, lq, ln, lfound, lenv,
          lout, lraised, catalogCalls, now, issued, threads, runs, backend,
          gens>>

---------------------------------------------------------------------------
(* Bounds of the model *)

\* A run starts only while the thread holds at most this many saved messages.
MaxHistory == 2
\* Per run: tool invocations beyond the first of a message, plus lookups
\* that do not take the default path (one semantic hit).
MaxVariations == 1
\* RetrySpec: the largest maxRetries a caller passes.
MaxMaxRetries == 6
\* LookupSpec: the largest catalog, and the largest limit next to the default.
MaxItems == 2
\* ResumeSpec: a thread is resumed after a run that hit the recursion limit
\* only if it held at most this many messages before that run.
MaxFailedPrior == 0
\* ServerSpec: the requests the server handles, and how far its clock runs.
MaxRequests == 3
MaxClock == 3
\* ThreadsSpec: the longest sequence of backend outcomes of a run.
MaxScript == 2
\* GenSpec: the executions of the generation step that are compared.
MaxGenerations == 2

---------------------------------------------------------------------------
(* Program constants *)

recursionLimit == 15
DefaultMaxRetries == 3
baseDelayMs == 1000
maxDelayMs == 30000
DefaultN == 10
RateLimitStatus == 429
AuthStatus == 401
\* error.status of an Error that carries none (undefined in the source)
NoStatus == 0
\* metadata.step of the empty checkpoint of a thread never saved
EmptyCheckpointStep == -2

---------------------------------------------------------------------------
(* Input domains *)

Queries == {"q1"}
Texts == {"t1", "t2"}
\* statuses a failing backend call carries: rate limit, authentication, other
BackendStatuses == {RateLimitStatus, AuthStatus, 500}

Min(a, b) == IF a <= b THEN a ELSE b

RECURSIVE Pow2(_)
Pow2(n) == IF n <= 0 THEN 1 ELSE 2 * Pow2(n - 1)

IsPrefix(s, t) == Len(s) <= Len(t) /\ SubSeq(t, 1, Len(s)) = s

Last(s) == s[Len(s)]

---------------------------------------------------------------------------
(* Errors *)

Err(status, message) == [status |-> status, message |-> message]
NoError == Err(NoStatus, "")
BackendError(status) == Err(status, "backend")
BackendErrors == {BackendError(s) : s \in BackendStatuses}
MaxRetriesError == Err(NoStatus, "Max retries exceeded")
GraphRecursionError == Err(NoStatus, "Recursion limit reached")

\* the value of a retryWithBackoff call that has not returned
NoValue == [value |-> ""]

---------------------------------------------------------------------------
(* retryWithBackoff, infra/utils/retry.ts *)

\* mutant: every error is retried while attempts are left
ShouldRetryAnyError(e, a, m) == a < m

\* mutant: a rate-limit error is retried on the last attempt too
ShouldRetryInclusive(e, a, m) == e.status = RateLimitStatus /\ a <= m

\* mutant: no error is retried
ShouldRetryNever(e, a, m) == FALSE

\* mutant: an authentication error is retried like a rate-limit error
ShouldRetryAuthToo(e, a, m) == e.status \in {RateLimitStatus, AuthStatus} /\ a < m

\* line 19: the catch retries only a rate-limit error with attempts left
ShouldRetry(e, a, m) == e.status = RateLimitStatus /\ a < m

\* mutant: the exponent counts the retries from 0
DelayFromZero(a) == Min(baseDelayMs * Pow2(a - 1), maxDelayMs)

\* mutant: the delay is not capped
DelayUncapped(a) == baseDelayMs * Pow2(a)

\* line 20: Math.min(1000 * Math.pow(2, attempt), 30000)
Delay(a) == Min(baseDelayMs * Pow2(a), maxDelayMs)

\* mutant: the loop runs one attempt more
LoopRunsOneMore(a, m) == a <= m + 1

\* mutant: the loop stops one attempt early
LoopRunsExclusive(a, m) == a < m

\* line 14: the loop condition
LoopRuns(a, m) == a <= m

\* lines 10-14: the call starts its loop at attempt 1; a loop that does not
\* run falls through to line 28
RetryEnter(m) ==
    /\ maxRetries' = m
    /\ attempt' = 1
    /\ invocations' = 0
    /\ waits' = <<>>
    /\ failures' = <<>>
    /\ rval' = NoValue
    /\ IF LoopRuns(1, m)
         THEN rpc' = "call" /\ rerr' = NoError
         ELSE rpc' = "thrown" /\ rerr' = MaxRetriesError

\* line 16: fn() resolves with v, which retryWithBackoff returns
RetryAttemptOk(v) ==
    /\ rpc = "call"
    /\ invocations' = invocations + 1
    /\ rpc' = "returned"
    /\ rval' = v
    /\ UNCHANGED <<maxRetries, attempt, rerr, waits, failures>>

\* lines 17-25: fn() rejects with e: wait and continue, or rethrow e
RetryAttemptFail(e) ==
    /\ rpc = "call"
    /\ invocations' = invocations + 1
    /\ failures' = Append(failures, e)
    /\ IF ShouldRetry(e, attempt, maxRetries)
         THEN rpc' = "wait" /\ waits' = Append(waits, Delay(attempt)) /\ rerr' = rerr
         ELSE rpc' = "thrown" /\ waits' = waits /\ rerr' = e
    /\ UNCHANGED <<maxRetries, attempt, rval>>

\* lines 22-23, 14, 28: the timer fires, continue runs attempt++ and the
\* loop condition
RetryWaitElapsed ==
    /\ rpc = "wait"
    /\ attempt' = attempt + 1
    /\ IF LoopRuns(attempt + 1, maxRetries)
         THEN rpc' = "call" /\ rerr' = rerr
         ELSE rpc' = "thrown" /\ rerr' = MaxRetriesError
    /\ UNCHANGED <<maxRetries, invocations, waits, failures, rval>>

---------------------------------------------------------------------------
(* Messages *)

\* message content: a string, or an array of content parts
StringContent(t) == [kind |-> "string", text |-> t]
PartsContent(t) == [kind |-> "parts", parts |-> <<[type |-> "text", text |-> t]>>]

HumanMessage(q) ==
    [role |-> "user", content |-> StringContent(q), tool_calls |-> <<>>,
     tool_call_id |-> 0]
AIMessage(c, calls) ==
    [role |-> "assistant", content |-> c, tool_calls |-> calls, tool_call_id |-> 0]
ToolMessage(id, text) ==
    [role |-> "tool", content |-> StringContent(text), tool_calls |-> <<>>,
     tool_call_id |-> id]

ToolCall(id, q, n) == [id |-> id, name |-> "item_lookup", args |-> [query |-> q, n |-> n]]

RECURSIVE CountCalls(_)
CountCalls(msgs) ==
    IF msgs = <<>> THEN 0
    ELSE Len(Last(msgs).tool_calls) + CountCalls(SubSeq(msgs, 1, Len(msgs) - 1))

\* mutant: the update is merged twice
ReducerTwice(x, y) == (x \o y) \o y

\* mutant: the update replaces the state
ReducerReplace(x, y) == y

\* mutant: the update is put in front of the state
ReducerPrepend(x, y) == y \o x

\* GraphState: reducer (x, y) => x.concat(y)
Reducer(x, y) == x \o y

---------------------------------------------------------------------------
(* item_lookup, infra/tools/item-lookup.ts *)

\* The catalog as one lookup sees it: the document count, the ranked hits of
\* the vector search, the matches of the regex search, and the call that
\* throws (none | count | vector | text).
Db(total, vec, txt, fault) == [total |-> total, vec |-> vec, txt |-> txt, fault |-> fault]

\* the first n of s: similaritySearchWithScore(query, n), find().limit(n)
Limit(s, n) == SubSeq(s, 1, Min(n, Len(s)))

EmptyEnvelope ==
    [error |-> "No items found in inventory",
     message |-> "The inventory database appears to be empty", count |-> 0]
ResultEnvelope(results, searchType, q) ==
    [results |-> results, searchType |-> searchType, query |-> q, count |-> Len(results)]
ErrorEnvelope(details, q) ==
    [error |-> "Failed to search inventory", details |-> details, query |-> q]

\* mutant: the emptiness of the catalog is not checked
IsEmptyCatalogNever(totalCount) == FALSE

\* line 19: totalCount === 0
IsEmptyCatalog(totalCount) == totalCount = 0

\* mutant: the text search runs whatever the vector search found
FallsBackAlways(hits) == TRUE

\* mutant: the vector result is returned even when it is empty
FallsBackNever(hits) == FALSE

\* line 52: result.length === 0
FallsBack(hits) == Len(hits) = 0

\* mutant: the text envelope counts the (empty) vector result
TextEnvelopeStaleCount(hits, textResults, q) ==
    [results |-> textResults, searchType |-> "text", query |-> q, count |-> Len(hits)]

\* lines 72-77: the envelope of the text search
TextEnvelope(hits, textResults, q) == ResultEnvelope(textResults, "text", q)

\* the handler, lines 10-110: the envelope it builds, for a limit n >= 1
ItemLookup(db, q, n) ==
    IF db.fault = "count" THEN ErrorEnvelope("count", q)
    ELSE IF IsEmptyCatalog(db.total) THEN EmptyEnvelope
    ELSE IF db.fault = "vector" THEN ErrorEnvelope("vector", q)
    ELSE LET found == Limit(db.vec, n) IN
         IF FallsBack(found)
         THEN IF db.fault = "text" THEN ErrorEnvelope("text", q)
              ELSE TextEnvelope(found, Limit(db.txt, n), q)
         ELSE ResultEnvelope(found, "vector", q)

\* JSON.stringify of an envelope
Stringify(v) == ToString(v)

\* what the catalog can look like to a lookup of a run
DefaultDb == Db(2, <<"oak table">>, <<"oak table">>, "none")

\* no envelope built (yet)
NoEnvelope == [none |-> TRUE]
DbCases ==
    { DefaultDb,
      Db(0, <<>>, <<>>, "none"),
      Db(2, <<>>, <<"oak table", "oak desk">>, "none"),
      Db(2, <<>>, <<>>, "none"),
      Db(2, <<"oak table">>, <<>>, "vector") }

---------------------------------------------------------------------------
(* callAgent, infra/agent.ts lines 296-391 *)

RateLimitMessage ==
    "Service temporarily unavailable due to rate limits. Please try again in a minute."
AuthMessage == "Authentication failed. Please check your API configuration."

NoResult == [kind |-> "none", text |-> ""]
Returned(text) == [kind |-> "value", text |-> text]
Thrown(text) == [kind |-> "error", text |-> text]

\* mutant: the catch has no branch for status 401
CatchErrorNoAuth(e) ==
    IF e.status = RateLimitStatus THEN Thrown(RateLimitMessage)
    ELSE Thrown("Agent failed: " \o e.message)

\* lines 367-390: the catch maps the error to the Error callAgent throws
CatchError(e) ==
    IF e.status = RateLimitStatus THEN Thrown(RateLimitMessage)
    ELSE IF e.status = AuthStatus THEN Thrown(AuthMessage)
    ELSE Thrown("Agent failed: " \o e.message)

\* mutant: the first message is read instead of the last
ResponseContentFirst(msgs) == msgs[1].content.text

\* lines 360-366: the last message's content, JSON.stringify'd unless a string
ResponseContent(msgs) ==
    LET response == Last(msgs).content IN
    IF response.kind = "string" THEN response.text ELSE Stringify(response.parts)

\* mutant: the conditional edge always goes to the tools node
shouldContinueAlways(msgs) == "tools"

\* mutant: the conditional edge always ends the run
shouldContinueNever(msgs) == "__end__"

\* lines 316-321
shouldContinue(msgs) ==
    LET toolCalls == Last(msgs).tool_calls IN
    IF Len(toolCalls) > 0 THEN "tools" ELSE "__end__"

\* mutant: the limit is granted to each of the two nodes on its own
StopForPerNode(s) == s + 2 * recursionLimit + 2

\* app.invoke with recursionLimit (lines 349-357): the Pregel loop stops at
\* step + recursionLimit + 1, step being the one of the input checkpoint
StopFor(s) == s + recursionLimit + 1

\* mutant: the loop never checks its step
OutOfStepsNever(s, st) == FALSE

\* mutant: the loop gives up one step late
OutOfStepsLate(s, st) == s > st + 1

\* the loop's check after each checkpoint, before it schedules the next node
OutOfSteps(s, st) == s > st

\* mutant: the checkpoint is written before the step's last message is merged
CheckpointPartial(msgs, s) ==
    [messages |-> SubSeq(msgs, 1, Len(msgs) - 1), step |-> s]

\* a checkpoint written by MongoDBSaver for the thread (line 345)
Checkpoint(msgs, s) == [messages |-> msgs, step |-> s]

\* the tool invocations a backend response may carry: k calls of item_lookup
\* with fresh call ids
ToolQuery == "oak table"
NewCalls(msgs, k) ==
    [j \in 1..k |-> ToolCall(CountCalls(msgs) + j, ToolQuery, DefaultN)]

PlainContents == {StringContent(t) : t \in Texts} \cup {PartsContent("t1")}

\* what model.invoke can resolve with (line 331), within the run's budget
Responses(msgs, budget) ==
    {AIMessage(c, <<>>) : c \in PlainContents}
    \cup {AIMessage(StringContent(""), NewCalls(msgs, k)) : k \in 1..(1 + budget)}

\* mutant: the tools node returns no message
ToolResultsNone(calls, dbs) == <<>>

\* mutant: a lookup that failed gets no message
ToolResultsDropFailed(calls, dbs) ==
    LET all == [j \in 1..Len(calls) |->
                  [env |-> ItemLookup(dbs[j], calls[j].args.query, calls[j].args.n),
                   id |-> calls[j].id]]
        Ok(x) == "details" \notin DOMAIN x.env
        kept == SelectSeq(all, Ok)
    IN [j \in 1..Len(kept) |-> ToolMessage(kept[j].id, Stringify(kept[j].env))]

\* mutant: the results come back in reverse order
ToolResultsReversed(calls, dbs) ==
    [j \in 1..Len(calls) |->
        LET c == calls[Len(calls) + 1 - j] IN
        ToolMessage(c.id, Stringify(ItemLookup(dbs[Len(calls) + 1 - j], c.args.query, c.args.n)))]

\* mutant: only the first tool call is executed
ToolResultsFirstOnly(calls, dbs) ==
    <<ToolMessage(calls[1].id,
                  Stringify(ItemLookup(dbs[1], calls[1].args.query, calls[1].args.n)))>>

\* ToolNode (lines 307-309): one ToolMessage per tool call, in call order
ToolResults(calls, dbs) ==
    [j \in 1..Len(calls) |->
        ToolMessage(calls[j].id,
                    Stringify(ItemLookup(dbs[j], calls[j].args.query, calls[j].args.n)))]

OddLookups(dbs) == Cardinality({j \in DOMAIN dbs : dbs[j] # DefaultDb})

\* new Date().toISOString() (line 327) of the clock reading ms
ISOString(ms) == "T" \o ToString(ms)

\* mutant: the request carries a number that changes with every call
FormatMessagesNumbered(time, msgs) ==
    [system |-> "You are a helpful E-commerce Chatbot Agent. Current time: " \o time,
     messages |-> msgs, seq |-> Len(gens)]

\* lines 326-329 with the template of config/model.ts lines 18-38: the system
\* directive with the time filled in, then the messages of the state
FormatMessages(time, msgs) ==
    [system |-> "You are a helpful E-commerce Chatbot Agent. Current time: " \o time,
     messages |-> msgs]

\* message histories a generation step is executed on
Histories ==
    { <<HumanMessage("q1")>>,
      <<HumanMessage("q1"), AIMessage(StringContent(""), NewCalls(<<>>, 1)),
        ToolMessage(1, Stringify(ItemLookup(DefaultDb, ToolQuery, DefaultN)))>> }

\* the threads of the server that runs are started on
ThreadIds == {"A", "B"}

\* no run of callAgent on the thread yet
NoRun ==
    [pc |-> "idle", messages |-> <<>>, script |-> <<>>, used |-> 0,
     result |-> NoResult, alone |-> <<>>, aloneResult |-> NoResult,
     overlapped |-> FALSE]

InRun == pc \in {"agent", "tools"}

Init ==
    /\ pc = "idle"
    /\ messages = <<>>
    /\ store = Checkpoint(<<>>, EmptyCheckpointStep)
    /\ step = 0
    /\ stop = 0
    /\ result = NoResult
    /\ maxRetries = DefaultMaxRetries
    /\ attempt = 1
    /\ rpc = "idle"
    /\ rerr = NoError
    /\ rval = NoValue
    /\ invocations = 0
    /\ waits = <<>>
    /\ failures = <<>>
    /\ prior = <<>>
    /\ genEntries = 0
    /\ toolSteps = 0
    /\ allTool = TRUE
    /\ variations = 0
    /\ lpc = "idle"
    /\ ldb = DefaultDb
    /\ lq = ""
    /\ ln = DefaultN
    /\ lfound = <<>>
    /\ lenv = NoEnvelope
    /\ lout = ""
    /\ lraised = FALSE
    /\ catalogCalls = <<>>
    /\ now = 0
    /\ issued = <<>>
    /\ threads = <<>>
    /\ runs = [t \in ThreadIds |-> NoRun]
    /\ backend = <<>>
    /\ gens = <<>>

\* callAgent(client, query, thread_id), lines 296-357 up to the first call of
\* the agent node: the checkpoint of the thread is loaded, the input written
\* (checkpoint "input"), the __start__ node merges it into messages
\* (checkpoint "loop") and the edge __start__ -> agent schedules callModel.
BeginRun(q) ==
    /\ LET s0 == store.step + 1
           msgs == Reducer(store.messages, <<HumanMessage(q)>>)
       IN /\ messages' = msgs
          /\ stop' = StopFor(s0)
          /\ store' = Checkpoint(msgs, s0 + 1)
          /\ step' = s0 + 2
    /\ prior' = store.messages
    /\ pc' = "agent"
    /\ RetryEnter(DefaultMaxRetries)
    /\ result' = NoResult
    /\ genEntries' = 1
    /\ toolSteps' = 0
    /\ allTool' = TRUE
    /\ variations' = 0
    /\ UNCHANGED <<lookupVars, serverVars, concVars, genVars>>

\* a request runs callAgent on the thread once the previous run has ended
StartRun(q) ==
    /\ ~InRun
    /\ Len(store.messages) <= MaxHistory
    /\ BeginRun(q)

\* The agent node returned its update: the reducer merges it, the checkpoint
\* is written, the loop checks its step, and shouldContinue routes; on
\* __end__ callAgent returns the last message's content (lines 359-366).
AgentDone(update) ==
    LET msgs == Reducer(messages, update.messages) IN
    /\ messages' = msgs
    /\ store' = Checkpoint(msgs, step)
    /\ step' = step + 1
    /\ IF OutOfSteps(step + 1, stop)
         THEN pc' = "failed" /\ result' = CatchError(GraphRecursionError)
         ELSE IF shouldContinue(msgs) = "tools"
         THEN pc' = "tools" /\ result' = result
         ELSE pc' = "returned" /\ result' = Returned(ResponseContent(msgs))

\* callModel, lines 324-334: an attempt of fn resolves with the backend's
\* response
ModelResponds(resp) ==
    /\ pc = "agent"
    /\ RetryAttemptOk([messages |-> <<resp>>])
    /\ AgentDone(rval')
    /\ allTool' = (allTool /\ Len(resp.tool_calls) > 0)
    /\ variations' = variations + (IF resp.tool_calls = <<>> THEN 0 ELSE Len(resp.tool_calls) - 1)
    /\ UNCHANGED <<stop, prior, genEntries, toolSteps>>
    /\ UNCHANGED <<lookupVars, serverVars, concVars, genVars>>

\* callModel, lines 324-334: an attempt of fn rejects with a backend error;
\* retryWithBackoff waits, or rethrows to callAgent's catch
ModelFails(e) ==
    /\ pc = "agent"
    /\ RetryAttemptFail(e)
    /\ IF rpc' = "thrown"
         THEN pc' = "failed" /\ result' = CatchError(rerr')
         ELSE pc' = pc /\ result' = result
    /\ allTool' = FALSE
    /\ UNCHANGED <<messages, store, step, stop, prior, genEntries, toolSteps, variations>>
    /\ UNCHANGED <<lookupVars, serverVars, concVars, genVars>>

\* the backoff timer of callModel's retryWithBackoff fires
ModelRetries ==
    /\ pc = "agent"
    /\ RetryWaitElapsed
    /\ IF rpc' = "thrown"
         THEN pc' = "failed" /\ result' = CatchError(rerr')
         ELSE pc' = pc /\ result' = result
    /\ UNCHANGED <<messages, store, step, stop, prior, genEntries, toolSteps,
                   allTool, variations>>
    /\ UNCHANGED <<lookupVars, serverVars, concVars, genVars>>

\* The tools node: ToolNode runs item_lookup for every tool call of the last
\* message, the reducer appends the ToolMessages, the checkpoint is written,
\* the loop checks its step, and the edge tools -> agent schedules callModel.
ToolsRun(dbs) ==
    /\ pc = "tools"
    /\ LET msgs == Reducer(messages, ToolResults(Last(messages).tool_calls, dbs)) IN
       /\ messages' = msgs
       /\ store' = Checkpoint(msgs, step)
       /\ step' = step + 1
       /\ IF OutOfSteps(step + 1, stop)
            THEN /\ pc' = "failed" /\ result' = CatchError(GraphRecursionError)
                 /\ genEntries' = genEntries
                 /\ UNCHANGED retryVars
            ELSE /\ pc' = "agent" /\ result' = result
                 /\ genEntries' = genEntries + 1
                 /\ RetryEnter(DefaultMaxRetries)
    /\ toolSteps' = toolSteps + 1
    /\ variations' = variations + OddLookups(dbs)
    /\ UNCHANGED <<stop, prior, allTool>>
    /\ UNCHANGED <<lookupVars, serverVars, concVars, genVars>>

\* the callers of part_002 (POST /chat, POST /chat/:threadId) pass any message
Start == \E q \in Queries : StartRun(q)

\* the backend answers the request of line 331
BackendResponds ==
    /\ pc = "agent"
    /\ \E resp \in Responses(messages, MaxVariations - variations) : ModelResponds(resp)

BackendFails == \E e \in BackendErrors : ModelFails(e)

\* the catalog answers the lookups of the tools node
Tools ==
    /\ pc = "tools"
    /\ \E dbs \in [1..Len(Last(messages).tool_calls) -> DbCases] :
          /\ OddLookups(dbs) <= MaxVariations - variations
          /\ ToolsRun(dbs)

RunStep == BackendResponds \/ BackendFails \/ ModelRetries \/ Tools

Next == Start \/ BackendResponds \/ BackendFails \/ ModelRetries \/ Tools

Spec == Init /\ [][Next]_vars

---------------------------------------------------------------------------
(* Runs of callAgent with a checkpoint store that can fail *)

\* the error MongoDBSaver.put rejects with
CheckpointError == Err(NoStatus, "checkpoint write failed")

\* app.invoke rejects with the error of the checkpoint write (line 349) and
\* the catch maps it (lines 367-390); the thread keeps its last checkpoint
SaveRejected ==
    /\ store' = store
    /\ pc' = "failed"
    /\ result' = CatchError(CheckpointError)
    /\ allTool' = FALSE

\* the write of the input checkpoint of a run fails
StartSaveFails ==
    /\ ~InRun
    /\ Len(store.messages) <= MaxHistory
    /\ \E q \in Queries : messages' = Reducer(store.messages, <<HumanMessage(q)>>)
    /\ SaveRejected
    /\ step' = store.step + 1
    /\ stop' = StopFor(store.step + 1)
    /\ prior' = store.messages
    /\ genEntries' = 0
    /\ toolSteps' = 0
    /\ variations' = 0
    /\ UNCHANGED <<retryVars, lookupVars, serverVars, concVars, genVars>>

\* the agent node returned its message and the write of its checkpoint fails
AgentSaveFails ==
    /\ pc = "agent"
    /\ \E resp \in Responses(messages, MaxVariations - variations) :
          /\ RetryAttemptOk([messages |-> <<resp>>])
          /\ messages' = Reducer(messages, <<resp>>)
          /\ variations' = variations +
                (IF resp.tool_calls = <<>> THEN 0 ELSE Len(resp.tool_calls) - 1)
    /\ SaveRejected
    /\ UNCHANGED <<step, stop, prior, genEntries, toolSteps, lookupVars, serverVars, concVars, genVars>>

\* the tools node appended its results and the write of its checkpoint fails
ToolsSaveFails ==
    /\ pc = "tools"
    /\ messages' = Reducer(messages,
                            ToolResults(Last(messages).tool_calls,
                                        [j \in DOMAIN Last(messages).tool_calls |-> DefaultDb]))
    /\ SaveRejected
    /\ toolSteps' = toolSteps + 1
    /\ UNCHANGED <<step, stop, prior, genEntries, variations, retryVars, lookupVars,
                   serverVars, concVars, genVars>>

PersistNext ==
    \/ Start \/ BackendResponds \/ BackendFails \/ ModelRetries \/ Tools
    \/ StartSaveFails \/ AgentSaveFails \/ ToolsSaveFails

PersistSpec == Init /\ [][PersistNext]_vars

---------------------------------------------------------------------------
(* Runs of callAgent on a thread whose previous run hit the recursion limit *)

\* POST /chat/:threadId after a run that failed at the recursion limit: the
\* run starts from the checkpoint that run left
ResumeAfterLimit ==
    /\ pc = "failed"
    /\ result = CatchError(GraphRecursionError)
    /\ Len(prior) <= MaxFailedPrior
    /\ \E q \in Queries : BeginRun(q)

ResumeNext ==
    \/ Start \/ BackendResponds \/ BackendFails \/ ModelRetries \/ Tools
    \/ ResumeAfterLimit

ResumeSpec == Init /\ [][ResumeNext]_vars

---------------------------------------------------------------------------
(* The server's endpoints, part_002 lines 25-52 *)

ChatMessages == {"m1", "m2"}

\* line 27: Date.now().toString()
ThreadIdAt(ms) == ToString(ms)

\* callAgent(client, message, threadId): the thread's saved messages get the
\* user message appended; a thread never saved starts empty
Saved(id) == IF id \in DOMAIN threads THEN threads[id] ELSE <<>>
SaveMessage(id, message) ==
    threads' = [t \in DOMAIN threads \cup {id} |->
                   IF t = id THEN Reducer(Saved(id), <<message>>) ELSE threads[t]]

\* the requests handled so far: every saved user message is one
RequestsHandled ==
    LET ids == DOMAIN threads
        RECURSIVE Sum(_)
        Sum(S) == IF S = {} THEN 0
                  ELSE LET t == CHOOSE x \in S : TRUE IN Len(threads[t]) + Sum(S \ {t})
    IN Sum(ids)

\* the clock advances by a millisecond
Tick ==
    /\ now < MaxClock
    /\ now' = now + 1
    /\ UNCHANGED <<issued, threads, agentVars, retryVars, lookupVars, concVars,
                   genVars>>

\* POST /chat (lines 25-38): the handler reads the clock for the threadId
\* and runs callAgent on that thread
PostChat ==
    /\ RequestsHandled < MaxRequests
    /\ \E message \in ChatMessages :
          LET threadId == ThreadIdAt(now) IN
          /\ issued' = Append(issued, threadId)
          /\ SaveMessage(threadId, message)
    /\ UNCHANGED <<now, agentVars, retryVars, lookupVars, concVars,
                   genVars>>

\* POST /chat/:threadId (lines 41-52): callAgent on the thread of the path
PostChatThread ==
    /\ RequestsHandled < MaxRequests
    /\ \E threadId \in DOMAIN threads, message \in ChatMessages :
          SaveMessage(threadId, message)
    /\ UNCHANGED <<now, issued, agentVars, retryVars, lookupVars, concVars,
                   genVars>>

ServerNext == Tick \/ PostChat \/ PostChatThread

ServerSpec == Init /\ [][ServerNext]_vars

---------------------------------------------------------------------------
(* retryWithBackoff on its own: any maxRetries, any operation *)

\* what the wrapped operation can resolve with and reject with
OpValues == {[value |-> "v1"], [value |-> "v2"]}
OpErrors == BackendErrors \cup {Err(NoStatus, "other")}

\* a caller calls retryWithBackoff(fn, m); m <= 0 is not excluded by its type
RetryCall ==
    /\ rpc \in {"idle", "returned", "thrown"}
    /\ \E m \in -1..MaxMaxRetries : RetryEnter(m)
    /\ UNCHANGED <<agentVars, lookupVars, serverVars, concVars, genVars>>

OpResolves ==
    /\ \E v \in OpValues : RetryAttemptOk(v)
    /\ UNCHANGED <<agentVars, lookupVars, serverVars, concVars, genVars>>

OpRejects ==
    /\ \E e \in OpErrors : RetryAttemptFail(e)
    /\ UNCHANGED <<agentVars, lookupVars, serverVars, concVars, genVars>>

TimerFires ==
    /\ RetryWaitElapsed
    /\ UNCHANGED <<agentVars, lookupVars, serverVars, concVars, genVars>>

RetryNext == RetryCall \/ OpResolves \/ OpRejects \/ TimerFires

RetrySpec == Init /\ [][RetryNext]_vars

---------------------------------------------------------------------------
(* item_lookup on its own: any catalog, any query, any limit *)

\* the first k documents of the catalog, in the order a search ranks them
Items(k) == [i \in 1..k |-> [item_id |-> i]]

\* catalogs of up to MaxItems documents: what the vector search and the
\* regex search find for the query, and the catalog call that throws
Catalogs ==
    {Db(total, Items(v), Items(t), fault) :
        total \in 0..MaxItems, v \in 0..MaxItems, t \in 0..MaxItems,
        fault \in {"none", "count", "vector", "text"}}

\* a catalog of total documents has at most total hits
RealCatalogs == {db \in Catalogs : Len(db.vec) <= db.total /\ Len(db.txt) <= db.total}

LookupQueries == {ToolQuery, "zzz"}

\* the n of the arguments: absent, or any number the schema lets through
\* (lines 118-122: z.number().optional().default(10), no lower bound)
LimitArgs == {<<>>} \cup {<<k>> : k \in -1..MaxItems}

\* line 10: n = 10 when the argument is absent
LimitOf(arg) == IF arg = <<>> THEN DefaultN ELSE arg[1]

\* line 48: similaritySearchWithScore(query, n) throws or returns at most n
\* hits; what it does with a limit below 1 is left to the search backend
VectorOutcomes(db, n) ==
    IF n >= 1
    THEN {[threw |-> db.fault = "vector", hits |-> Limit(db.vec, n)]}
    ELSE {[threw |-> TRUE, hits |-> <<>>], [threw |-> db.fault = "vector", hits |-> <<>>]}

\* lines 57-68: find(...).limit(n).toArray(); the driver reads limit 0 as no
\* limit and a negative limit as its absolute value
FindLimit(s, n) == IF n = 0 THEN s ELSE Limit(s, IF n < 0 THEN 0 - n ELSE n)

\* mutant: the catalog count is made outside the try block
CaughtSearchesOnly(op) == op # "count"

\* lines 11, 87: the call that threw was made inside the try block
Caught(op) == TRUE

CatalogCall(op, n) == [op |-> op, n |-> n]

\* the handler ends returning JSON.stringify(env)
LookupReturns(env) ==
    /\ lpc' = "done"
    /\ lenv' = env
    /\ lout' = Stringify(env)
    /\ lraised' = FALSE

\* lines 87-109: a catalog call threw: the catch returns the failure envelope
LookupThrows(op) ==
    IF Caught(op)
    THEN LookupReturns(ErrorEnvelope(op, lq))
    ELSE lpc' = "done" /\ lenv' = NoEnvelope /\ lout' = "" /\ lraised' = TRUE

\* the tool is called with {query, n}
LookupCall ==
    /\ lpc \in {"idle", "done"}
    /\ \E db \in RealCatalogs, q \in LookupQueries, arg \in LimitArgs :
          /\ ldb' = db
          /\ lq' = q
          /\ ln' = LimitOf(arg)
    /\ lpc' = "count"
    /\ lfound' = <<>>
    /\ lenv' = NoEnvelope
    /\ lout' = ""
    /\ lraised' = FALSE
    /\ catalogCalls' = <<>>
    /\ UNCHANGED <<agentVars, retryVars, serverVars, concVars, genVars>>

\* lines 15-26: countDocuments, and the early return on an empty catalog
CountDocuments ==
    /\ lpc = "count"
    /\ catalogCalls' = Append(catalogCalls, CatalogCall("count", 0))
    /\ IF ldb.fault = "count" THEN LookupThrows("count")
       ELSE IF IsEmptyCatalog(ldb.total) THEN LookupReturns(EmptyEnvelope)
       ELSE lpc' = "vector" /\ UNCHANGED <<lenv, lout, lraised>>
    /\ UNCHANGED <<ldb, lq, ln, lfound, agentVars, retryVars, serverVars, concVars, genVars>>

\* lines 33-52, 81-86: the vector search, and its envelope unless it is empty
VectorSearch ==
    /\ lpc = "vector"
    /\ catalogCalls' = Append(catalogCalls, CatalogCall("vector", ln))
    /\ \E out \in VectorOutcomes(ldb, ln) :
          IF out.threw THEN LookupThrows("vector") /\ lfound' = lfound
          ELSE /\ lfound' = out.hits
               /\ IF FallsBack(out.hits)
                    THEN lpc' = "text" /\ UNCHANGED <<lenv, lout, lraised>>
                    ELSE LookupReturns(ResultEnvelope(out.hits, "vector", lq))
    /\ UNCHANGED <<ldb, lq, ln, agentVars, retryVars, serverVars, concVars, genVars>>

\* lines 52-78: the text search and its envelope
TextSearch ==
    /\ lpc = "text"
    /\ catalogCalls' = Append(catalogCalls, CatalogCall("text", ln))
    /\ IF ldb.fault = "text" THEN LookupThrows("text")
       ELSE LookupReturns(TextEnvelope(lfound, FindLimit(ldb.txt, ln), lq))
    /\ UNCHANGED <<ldb, lq, ln, lfound, agentVars, retryVars, serverVars, concVars, genVars>>

LookupNext == LookupCall \/ CountDocuments \/ VectorSearch \/ TextSearch

LookupSpec == Init /\ [][LookupNext]_vars

---------------------------------------------------------------------------
(* The generation step on its own: the clock and a backend that is a       *)
(* function of the request it receives                                     *)

\* what the backend decides for a request
Decisions == {"answer", "tool call"}

\* what model.invoke resolves with (line 331) when the backend decides so
ModelResponse(request, decision) ==
    IF decision = "tool call"
    THEN AIMessage(StringContent(""), NewCalls(request.messages, 1))
    ELSE AIMessage(StringContent("t1"), <<>>)

\* callModel (lines 324-334): the prompt is formatted with the time of the
\* call and the messages of the state, the backend answers the request as it
\* answers every equal request, and the conditional edge reads the answer
CallModel ==
    /\ Len(gens) < MaxGenerations
    /\ \E history \in Histories :
          LET formattedPrompt == FormatMessages(ISOString(now), history) IN
          \E decision \in (IF formattedPrompt \in DOMAIN backend
                           THEN {backend[formattedPrompt]} ELSE Decisions) :
             LET response == ModelResponse(formattedPrompt, decision) IN
             /\ backend' = [r \in DOMAIN backend \cup {formattedPrompt} |->
                               IF r = formattedPrompt THEN decision ELSE backend[r]]
             /\ gens' = Append(gens,
                               [time |-> now, messages |-> history,
                                request |-> formattedPrompt, response |-> response,
                                next |-> shouldContinue(Reducer(history, <<response>>))])
    /\ UNCHANGED <<now, issued, threads, agentVars, retryVars, lookupVars, concVars>>

GenNext == Tick \/ CallModel

GenSpec == Init /\ [][GenNext]_vars

---------------------------------------------------------------------------
(* Runs of callAgent on two threads whose steps interleave                 *)

\* what the backend does at a call of the agent node
Outcomes == {"tool call", "answer", "error"}

\* the backend's outcomes for one run: tool calls, then an answer or an error
Scripts ==
    {s \in UNION {[1..n -> Outcomes] : n \in 1..MaxScript} :
        \A i \in 1..Len(s) : (s[i] = "tool call") <=> (i < Len(s))}

\* mutant: every run uses the same key of the checkpoint collection
StoreKeyShared(threadId) == "A"

\* line 355: configurable: { thread_id }, the key of the run's checkpoints
StoreKey(threadId) == threadId

\* MongoDBSaver.put for the key (lines 345-346)
PutCheckpoint(id, msgs) ==
    threads' = [t \in DOMAIN threads \cup {id} |-> IF t = id THEN msgs ELSE threads[t]]

\* the messages of a run that starts from msgs and meets the outcomes of
\* script with no other run in the system (lines 337-357)
RECURSIVE RunAlone(_, _)
RunAlone(msgs, script) ==
    IF script = <<>> \/ Head(script) = "error" THEN msgs
    ELSE LET response == ModelResponse(FormatMessages(ISOString(0), msgs), Head(script))
             afterAgent == Reducer(msgs, <<response>>)
         IN IF shouldContinue(afterAgent) = "tools"
            THEN RunAlone(Reducer(afterAgent,
                                  ToolResults(response.tool_calls,
                                              [j \in 1..Len(response.tool_calls) |-> DefaultDb])),
                          Tail(script))
            ELSE afterAgent

\* what callAgent gives back for that run (lines 360-390)
ResultAlone(msgs, script) ==
    IF script[Len(script)] = "error" THEN CatchError(BackendError(AuthStatus))
    ELSE Returned(ResponseContent(RunAlone(msgs, script)))

ThreadInRun(t) == runs[t].pc \in {"agent", "tools"}
Overlaps(t) == runs[t].overlapped \/ \E u \in ThreadIds \ {t} : ThreadInRun(u)

\* app.invoke (lines 349-357) on thread t: the thread's checkpoint is loaded,
\* the user message is appended and saved
ThreadStarts(t) ==
    /\ ~ThreadInRun(t)
    /\ Len(Saved(StoreKey(t))) < MaxHistory
    /\ \E message \in ChatMessages, script \in Scripts :
          LET msgs == Reducer(Saved(StoreKey(t)), <<HumanMessage(message)>>) IN
          /\ runs' = [runs EXCEPT ![t] =
                        [pc |-> "agent", messages |-> msgs, script |-> script, used |-> 0,
                         result |-> NoResult,
                         alone |-> RunAlone(Reducer(runs[t].alone, <<HumanMessage(message)>>), script),
                         aloneResult |-> ResultAlone(Reducer(runs[t].alone, <<HumanMessage(message)>>), script),
                         overlapped |-> \E u \in ThreadIds \ {t} : ThreadInRun(u)]]
          /\ PutCheckpoint(StoreKey(t), msgs)
    /\ UNCHANGED <<now, issued, agentVars, retryVars, lookupVars, genVars>>

\* the agent node of thread t's run (lines 324-334), then the conditional
\* edge, and at the end of the run lines 360-366
ThreadAgentResponds(t) ==
    /\ runs[t].pc = "agent"
    /\ runs[t].script[runs[t].used + 1] # "error"
    /\ LET r == runs[t]
           response == ModelResponse(FormatMessages(ISOString(now), r.messages),
                                     r.script[r.used + 1])
           msgs == Reducer(r.messages, <<response>>)
       IN /\ runs' = [runs EXCEPT ![t] =
                        [r EXCEPT !.messages = msgs, !.used = r.used + 1,
                                  !.overlapped = Overlaps(t),
                                  !.pc = IF shouldContinue(msgs) = "tools" THEN "tools"
                                         ELSE "returned",
                                  !.result = IF shouldContinue(msgs) = "tools" THEN NoResult
                                             ELSE Returned(ResponseContent(msgs))]]
          /\ PutCheckpoint(StoreKey(t), msgs)
    /\ UNCHANGED <<now, issued, agentVars, retryVars, lookupVars, genVars>>

\* the backend rejects the call of thread t's agent node with an error that
\* is not retried; the catch (lines 367-390) maps it
ThreadAgentFails(t) ==
    /\ runs[t].pc = "agent"
    /\ runs[t].script[runs[t].used + 1] = "error"
    /\ runs' = [runs EXCEPT ![t] =
                  [runs[t] EXCEPT !.pc = "failed", !.used = runs[t].used + 1,
                                  !.overlapped = Overlaps(t),
                                  !.result = CatchError(BackendError(AuthStatus))]]
    /\ UNCHANGED <<now, issued, threads, agentVars, retryVars, lookupVars, genVars>>

\* the tools node of thread t's run (lines 307-309)
ThreadToolsRun(t) ==
    /\ runs[t].pc = "tools"
    /\ LET r == runs[t]
           toolCalls == Last(r.messages).tool_calls
           msgs == Reducer(r.messages,
                           ToolResults(toolCalls, [j \in 1..Len(toolCalls) |-> DefaultDb]))
       IN /\ runs' = [runs EXCEPT ![t] =
                        [r EXCEPT !.messages = msgs, !.pc = "agent",
                                  !.overlapped = Overlaps(t)]]
          /\ PutCheckpoint(StoreKey(t), msgs)
    /\ UNCHANGED <<now, issued, agentVars, retryVars, lookupVars, genVars>>

ThreadBegin == \E t \in ThreadIds : ThreadStarts(t)
ThreadAgent == \E t \in ThreadIds : ThreadAgentResponds(t)
ThreadError == \E t \in ThreadIds : ThreadAgentFails(t)
ThreadTools == \E t \in ThreadIds : ThreadToolsRun(t)

ThreadsNext == ThreadBegin \/ ThreadAgent \/ ThreadError \/ ThreadTools

ThreadsSpec == Init /\ [][ThreadsNext]_vars

---------------------------------------------------------------------------
(* Properties of a run: termination and the recursion limit *)

\* a measure of the work a run has left: steps up to the loop's stop, and
\* within a call of the agent node the attempts and waits of its retry loop
Rank ==
    (stop + 1 - step) * (2 * DefaultMaxRetries + 2)
    + 2 * (maxRetries - attempt) + (IF rpc = "call" THEN 1 ELSE 0)

RecursionFailure == CatchError(GraphRecursionError)

\* C1: every run of callAgent terminates whatever the backend answers: a run
\* that has not ended can always take a step, every step of a run strictly
\* decreases a measure that is never negative, and a run in which every
\* backend response requested a tool ends failed with the recursion-limit
\* error.
C1_EveryRunTerminates ==
    /\ [](InRun => Rank >= 0)
    /\ [](InRun => (ENABLED BackendFails) \/ (ENABLED ModelRetries) \/ (ENABLED Tools))
    /\ [][InRun /\ InRun' => Rank' < Rank]_vars
    /\ [](~InRun /\ pc # "idle" /\ allTool => pc = "failed" /\ result = RecursionFailure)

C1_Witness ==
    /\ pc = "failed" /\ allTool /\ result = RecursionFailure
    /\ Len(messages) > Len(prior) + recursionLimit

\* C2: in every run the number of calls of the agent node never exceeds
\* recursionLimit.
C2_GenerationEntriesBounded == genEntries <= recursionLimit

C2_Witness == pc = "agent" /\ 2 * genEntries = recursionLimit + 1

\* C3 as stated: a run whose every backend response requests a tool fails
\* when exactly recursionLimit calls of the agent node have happened.
C3_Original == (pc = "failed" /\ allTool) => genEntries = recursionLimit

\* C3 amended: a run whose every backend response requests a tool fails with
\* the recursion-limit error after exactly recursionLimit node executions,
\* the agent node and the tools node counted together: 8 calls of the agent
\* node and 7 executions of the tools node.
C3_FailsAtNodeCeiling ==
    (pc = "failed" /\ allTool) =>
        /\ result = RecursionFailure
        /\ genEntries + toolSteps = recursionLimit
        /\ genEntries = toolSteps + 1

C3_Witness == pc = "failed" /\ allTool /\ genEntries = 8 /\ toolSteps = 7

---------------------------------------------------------------------------
(* Properties of a run: routing, the message sequence, the answer *)

\* a step in which the agent node returned a message
GenerationStep == pc = "agent" /\ messages' # messages
\* a step in which the tools node ran
ToolStep == pc = "tools" /\ toolSteps' # toolSteps

\* C4 as stated: after every generation step the next step is tool execution
\* when the newest message carries tool invocations and the run is DONE
\* otherwise, and tool execution always returns to generation.
C4_Original ==
    [][/\ GenerationStep =>
             IF Last(messages').tool_calls # <<>> THEN pc' = "tools" ELSE pc' = "returned"
       /\ ToolStep => pc' = "agent"]_vars

\* C4 amended: after every generation step that produced a message the next
\* step is tool execution when the message carries tool invocations and the
\* run is DONE otherwise, unless that step exhausted the recursion limit:
\* then the run fails with the recursion-limit error, whatever the message
\* carries. A generation step that produces no message retries or fails the
\* run. Tool execution always returns to generation.
C4_RoutesOnNewestMessage ==
    [][/\ GenerationStep =>
             IF step' > stop THEN pc' = "failed" /\ result' = RecursionFailure
             ELSE IF Last(messages').tool_calls # <<>> THEN pc' = "tools"
             ELSE pc' = "returned"
       /\ pc = "agent" /\ messages' = messages => pc' \in {"agent", "failed"}
       /\ ToolStep => pc' = "agent" /\ Len(messages') > Len(messages)]_vars

C4_Witness ==
    /\ pc = "failed" /\ result = RecursionFailure
    /\ Last(messages).role = "assistant" /\ Last(messages).tool_calls = <<>>

\* C5: the message sequence is append-only: in every step the messages of
\* the run, and the messages saved for the thread, are extended by a suffix
\* or left as they are.
C5_AppendOnly ==
    [][/\ IsPrefix(messages, messages')
       /\ IsPrefix(store.messages, store'.messages)]_vars

C5_Witness ==
    /\ pc = "returned" /\ prior # <<>> /\ toolSteps > 0
    /\ store.messages = messages

\* C6: a run that resumes a thread with saved messages S and a new user
\* message m keeps S followed by m as a prefix of its state and of what it
\* saves, and every message after m is an assistant or a tool message.
C6_ResumeKeepsPrefix ==
    pc # "idle" =>
        LET n == Len(prior) IN
        /\ Len(messages) > n
        /\ SubSeq(messages, 1, n) = prior
        /\ messages[n + 1] \in {HumanMessage(q) : q \in Queries}
        /\ \A i \in (n + 2)..Len(messages) : messages[i].role \in {"assistant", "tool"}
        /\ IsPrefix(SubSeq(messages, 1, n + 1), store.messages)

C6_Witness ==
    /\ pc = "returned" /\ Len(prior) >= 2 /\ Last(prior).role = "assistant"
    /\ Len(messages) > Len(prior) + 2

\* C7: a run that reaches DONE has added at least 2 messages to those saved
\* before it, the user message and an assistant message, and at least 2 more
\* per tool round, and has removed none.
C7_CountGrowsByTwo ==
    pc = "returned" =>
        /\ Len(messages) >= Len(prior) + 2 + 2 * toolSteps
        /\ IsPrefix(prior, messages)

C7_Witness ==
    /\ pc = "returned" /\ prior # <<>> /\ toolSteps = 1
    /\ Len(messages) = Len(prior) + 5

\* C8 as stated: the value callAgent returns is the content of the last
\* message, an assistant message without tool invocations, of a run that
\* reached DONE.
C8_Original ==
    result.kind = "value" =>
        /\ pc = "returned"
        /\ Last(messages).role = "assistant"
        /\ Last(messages).tool_calls = <<>>
        /\ Last(messages).content = StringContent(result.text)

\* C8 amended: whenever callAgent returns a value the run reached DONE, the
\* last message is an assistant message without tool invocations, and the
\* value is that message's content when it is a string and the JSON text of
\* the content otherwise.
C8_ReturnsLastContentAsText ==
    result.kind = "value" =>
        /\ pc = "returned"
        /\ Last(messages).role = "assistant"
        /\ Last(messages).tool_calls = <<>>
        /\ LET c == Last(messages).content IN
           IF c.kind = "string" THEN result.text = c.text
           ELSE result.text = ToString(c.parts)

C8_Witness ==
    /\ result.kind = "value" /\ Last(messages).content.kind = "parts"
    /\ toolSteps > 0

\* the backend's responses so far all requested tools and this one does not
PlainAfterTools == GenerationStep /\ allTool /\ Last(messages').tool_calls = <<>>

TextOf(c) == IF c.kind = "string" THEN c.text ELSE ToString(c.parts)

\* C9 as stated: when the first r responses request tools and response r+1
\* does not, with r+1 at most recursionLimit, the run reaches DONE after r+1
\* calls of the agent node and r executions of the tools node and returns the
\* text of response r+1.
C9_Original ==
    [][PlainAfterTools /\ genEntries <= recursionLimit =>
          /\ pc' = "returned"
          /\ genEntries' = toolSteps' + 1
          /\ result' = Returned(TextOf(Last(messages').content))]_vars

\* C9 amended: the same, for r at most 6: the limit counts the executions of
\* both nodes, and the run must end before the 15th.
C9_RoundsThenAnswer ==
    [][/\ PlainAfterTools /\ 2 * genEntries < recursionLimit =>
             /\ pc' = "returned"
             /\ genEntries' = toolSteps' + 1
             /\ result' = Returned(TextOf(Last(messages').content))
       /\ pc' = "returned" =>
             /\ genEntries' = toolSteps' + 1
             /\ Last(messages').tool_calls = <<>>]_vars

C9_Witness == pc = "returned" /\ genEntries = 2 /\ toolSteps = 1 /\ allTool = FALSE

---------------------------------------------------------------------------
(* Properties of retryWithBackoff *)

\* C10: when fn rejects with an error that is not a rate-limit error,
\* retryWithBackoff rethrows that error at once: no wait follows it, no later
\* call of fn is made, and a failure of the first attempt leaves fn called
\* exactly once and nothing waited.
C10_OtherErrorsPropagate ==
    /\ rpc = "wait" => Last(failures).status = RateLimitStatus
    /\ (failures # <<>> /\ Last(failures).status # RateLimitStatus) =>
          /\ rpc = "thrown"
          /\ rerr = Last(failures)
          /\ invocations = Len(failures)
          /\ Len(waits) = Len(failures) - 1
          /\ \A i \in 1..(Len(failures) - 1) : failures[i].status = RateLimitStatus

C10_Witness ==
    /\ rpc = "thrown" /\ rerr.status = AuthStatus
    /\ invocations = 1 /\ waits = <<>> /\ maxRetries > 1

\* every rejection of fn so far was a rate-limit error
AllRateLimited == \A i \in 1..Len(failures) : failures[i].status = RateLimitStatus

\* C11: when fn rejects with a rate-limit error k < maxRetries times and
\* then resolves, retryWithBackoff returns the value fn resolved with, has
\* called fn k + 1 times and has waited k times, with delays that never
\* decrease and never exceed maxDelayMs; with fewer than maxRetries
\* rate-limit rejections the call has not failed.
C11_SucceedsAfterRateLimits ==
    /\ rpc = "returned" =>
          /\ rval \in OpValues
          /\ AllRateLimited
          /\ Len(failures) < maxRetries
          /\ invocations = Len(failures) + 1
          /\ Len(waits) = Len(failures)
          /\ \A i \in 1..Len(waits) : waits[i] <= maxDelayMs
          /\ \A i \in 1..(Len(waits) - 1) : waits[i] <= waits[i + 1]
    /\ (rpc = "thrown" /\ AllRateLimited /\ maxRetries >= 1) =>
          Len(failures) >= maxRetries

C11_Witness ==
    /\ rpc = "returned" /\ rval = [value |-> "v2"]
    /\ Len(failures) = 5 /\ invocations = 6
    /\ waits[4] < maxDelayMs /\ waits[5] = maxDelayMs

\* C12: when fn always rejects with a rate-limit error, retryWithBackoff
\* (maxRetries at least 1) fails after exactly maxRetries calls of fn and
\* exactly maxRetries - 1 waits: fn is never called more than maxRetries
\* times, and the call does not fail on rate-limit errors before that.
C12_FailsAfterMaxAttempts ==
    (maxRetries >= 1 /\ AllRateLimited) =>
        /\ invocations <= maxRetries
        /\ Len(waits) <= maxRetries - 1
        /\ rpc = "thrown" =>
              /\ invocations = maxRetries
              /\ Len(failures) = maxRetries
              /\ Len(waits) = maxRetries - 1
        /\ Len(failures) = maxRetries => rpc = "thrown"

C12_Witness ==
    /\ rpc = "thrown" /\ AllRateLimited /\ maxRetries = DefaultMaxRetries
    /\ invocations = 3 /\ Len(waits) = 2

\* the call failed with every attempt used up on rate-limit errors
Exhausted ==
    /\ rpc = "thrown" /\ maxRetries >= 1
    /\ AllRateLimited /\ Len(failures) = maxRetries

\* C13 as stated: when every attempt is used up on rate-limit errors the
\* error raised is a distinct exhaustion error, not the last error of fn.
C13_Original == Exhausted => rerr # Last(failures)

\* C13 amended: when every attempt is used up on rate-limit errors the error
\* raised is the last error fn rejected with, as it is, with its status 429;
\* it is not the "Max retries exceeded" error.
C13_RethrowsLastError ==
    Exhausted =>
        /\ rerr = Last(failures)
        /\ rerr.status = RateLimitStatus
        /\ rerr # MaxRetriesError

C13_Witness == Exhausted /\ maxRetries = 2 /\ rerr = BackendError(RateLimitStatus)

\* C14: the i-th wait of a call is min(baseDelayMs * 2^i, maxDelayMs), i
\* being the number of the attempt that just failed; waits follow rate-limit
\* failures with attempts left only, and attempt i + 1 starts only when the
\* i-th wait has elapsed.
C14_WaitIsExponentialCapped ==
    /\ \A i \in 1..Len(waits) :
          /\ waits[i] = (IF baseDelayMs * 2^i <= maxDelayMs
                           THEN baseDelayMs * 2^i ELSE maxDelayMs)
          /\ failures[i].status = RateLimitStatus
          /\ i < maxRetries
    /\ rpc = "wait" => Len(waits) = attempt /\ Len(failures) = attempt
    /\ rpc = "call" => Len(waits) = attempt - 1 /\ invocations = attempt - 1

C14_Witness ==
    /\ rpc = "call" /\ attempt = 6
    /\ waits = <<2000, 4000, 8000, 16000, 30000>>

---------------------------------------------------------------------------
(* Properties of item_lookup *)

\* how many times the handler called the catalog operation op
CallsOf(op) == Cardinality({i \in DOMAIN catalogCalls : catalogCalls[i].op = op})

IsResultEnvelope(env) == DOMAIN env = {"results", "searchType", "query", "count"}
IsFailureEnvelope(env) == DOMAIN env = {"error", "details", "query"}

\* C15: on an empty catalog (countDocuments returned 0) item lookup returns
\* the envelope with error "No items found in inventory" and count 0, and
\* calls neither the vector search nor the text search.
C15_EmptyCatalogShortCircuits ==
    (ldb.total = 0 /\ ldb.fault # "count") =>
        /\ lpc \notin {"vector", "text"}
        /\ CallsOf("vector") = 0 /\ CallsOf("text") = 0
        /\ lpc = "done" =>
              /\ ~lraised
              /\ DOMAIN lenv = {"error", "message", "count"}
              /\ lenv.error = "No items found in inventory"
              /\ lenv.count = 0
              /\ CallsOf("count") = 1

C15_Witness ==
    /\ lpc = "done" /\ ldb.total = 0 /\ ldb.fault = "none"
    /\ "count" \in DOMAIN lenv /\ catalogCalls = <<CatalogCall("count", 0)>>

\* C16 as stated: on every non-empty catalog, for every query and limit,
\* the envelope returned has count equal to the length of results and a
\* searchType of "vector" or "text".
C16_Original ==
    (lpc = "done" /\ ldb.total > 0) =>
        /\ IsResultEnvelope(lenv)
        /\ lenv.count = Len(lenv.results)
        /\ lenv.searchType \in {"vector", "text"}

\* C16 amended: on every non-empty catalog, for every query and limit, the
\* envelope returned is the failure envelope of the catalog call that threw,
\* or has count equal to the length of results and a searchType of "vector"
\* or "text"; it is the latter whenever no catalog call throws.
C16_CountMatchesResults ==
    (lpc = "done" /\ ldb.total > 0) =>
        /\ ~lraised
        /\ IF IsFailureEnvelope(lenv)
             THEN /\ lenv.details = Last(catalogCalls).op
                  /\ ldb.fault = lenv.details \/ ln < 1
             ELSE /\ IsResultEnvelope(lenv)
                  /\ lenv.count = Len(lenv.results)
                  /\ lenv.searchType \in {"vector", "text"}
        /\ (ldb.fault = "none" /\ ln >= 1) => IsResultEnvelope(lenv)

C16_Witness ==
    /\ lpc = "done" /\ ldb.total > 0 /\ IsResultEnvelope(lenv)
    /\ lenv.searchType = "text" /\ lenv.count = 2 /\ Len(lenv.results) = 2

\* C17: when the vector search returns no entry on a non-empty catalog the
\* handler calls the text search, exactly once; when that search returns,
\* the envelope carries its matches tagged "text", and with no match it is a
\* result envelope with empty results and count 0 and no error field.
C17_FallbackOnceTaggedText ==
    /\ [](CallsOf("text") <= 1)
    /\ [](lpc = "text" => ldb.total > 0 /\ lfound = <<>> /\ CallsOf("text") = 0)
    /\ []((lpc = "done" /\ IsResultEnvelope(lenv) /\ lenv.results = <<>>) =>
             /\ lenv.searchType = "text"
             /\ lenv.count = 0
             /\ "error" \notin DOMAIN lenv
             /\ CallsOf("text") = 1)
    /\ [][(lpc = "vector" /\ ln >= 1 /\ ldb.fault # "vector" /\ ldb.vec = <<>>)
             => lpc' = "text"]_vars
    /\ [][(lpc = "text" /\ ldb.fault # "text") =>
             /\ lpc' = "done"
             /\ CallsOf("text")' = 1
             /\ IsResultEnvelope(lenv')
             /\ lenv'.searchType = "text"
             /\ lenv'.query = lq
             /\ IsPrefix(lenv'.results, ldb.txt)
             /\ ln >= 1 => Len(lenv'.results) = Min(ln, Len(ldb.txt))]_vars

C17_Witness ==
    /\ lpc = "done" /\ ldb.total > 0 /\ ldb.txt = <<>> /\ ldb.fault = "none"
    /\ lenv = [results |-> <<>>, searchType |-> "text", query |-> lq, count |-> 0]
    /\ CallsOf("text") = 1

\* C18: item lookup never raises: when the catalog count, the vector search
\* or the text search throws, the handler returns the failure envelope
\* {error, details, query} with the query it was called with, and it always
\* ends returning the text of an envelope, the one the tools node puts in
\* its ToolMessage.
C18_NeverRaises ==
    /\ ~lraised
    /\ lpc = "done" => lenv # NoEnvelope /\ lout # ""
    /\ (lpc = "done" /\ ln >= 1) => lenv = ItemLookup(ldb, lq, ln)
    /\ (lpc = "done" /\ ldb.fault # "none" /\ Last(catalogCalls).op = ldb.fault) =>
          /\ IsFailureEnvelope(lenv)
          /\ lenv.error = "Failed to search inventory"
          /\ lenv.details = ldb.fault
          /\ lenv.query = lq

C18_Witness ==
    /\ lpc = "done" /\ ldb.fault = "count" /\ IsFailureEnvelope(lenv)
    /\ lenv.query = lq /\ catalogCalls = <<CatalogCall("count", 0)>>

\* C19 as stated: a limit n <= 0 never reaches the vector search or the text
\* search as given: the call is rejected, or n is taken as 1.
C19_Original ==
    \A i \in DOMAIN catalogCalls :
        catalogCalls[i].op \in {"vector", "text"} => catalogCalls[i].n >= 1

\* C28: the text search is called only after a vector search that returned
\* no entry: when the vector search returns one or more entries the handler
\* ends at once, without calling the text search, returning those entries
\* tagged "vector".
C28_FallbackOnlyOnZeroHits ==
    /\ [](CallsOf("text") >= 1 =>
             /\ lfound = <<>>
             /\ catalogCalls[Len(catalogCalls) - 1].op = "vector"
             /\ Last(catalogCalls).op = "text")
    /\ []((lpc = "done" /\ IsResultEnvelope(lenv) /\ lenv.searchType = "vector") =>
             /\ lenv.results = lfound /\ lfound # <<>>
             /\ lenv.count = Len(lfound)
             /\ CallsOf("text") = 0)
    /\ [][(lpc = "vector" /\ ln >= 1 /\ ldb.fault # "vector" /\ ldb.vec # <<>>) =>
             /\ lpc' = "done"
             /\ CallsOf("text")' = 0
             /\ lenv' = [results |-> SubSeq(ldb.vec, 1, Min(ln, Len(ldb.vec))),
                         searchType |-> "vector", query |-> lq,
                         count |-> Min(ln, Len(ldb.vec))]]_vars

C28_Witness ==
    /\ lpc = "done" /\ Len(ldb.vec) = 2 /\ ln = 1 /\ ldb.txt # <<>>
    /\ IsResultEnvelope(lenv) /\ lenv.searchType = "vector" /\ lenv.count = 1
    /\ CallsOf("text") = 0

---------------------------------------------------------------------------
(* Properties of callAgent's error mapping *)

\* the error that ended a failed run: the one retryWithBackoff threw in the
\* agent node, or else the recursion-limit error of the loop
FailureOf == IF rpc = "thrown" THEN rerr ELSE GraphRecursionError

\* C20: every run that fails ends with callAgent throwing exactly one of
\* three messages: the rate-limit message for an error with status 429, the
\* authentication message for an error with status 401, and "Agent failed: "
\* followed by the error's message for every other error, the
\* recursion-limit error included; callAgent throws in no other way.
C20_ThreeUserFacingMessages ==
    /\ result.kind = "error" <=> pc = "failed"
    /\ pc = "failed" =>
          /\ FailureOf.status = RateLimitStatus => result.text = RateLimitMessage
          /\ FailureOf.status = AuthStatus => result.text = AuthMessage
          /\ FailureOf.status \notin {RateLimitStatus, AuthStatus} =>
                result.text = "Agent failed: " \o FailureOf.message
          /\ rpc # "thrown" => result.text = "Agent failed: Recursion limit reached"

C20_Witness ==
    /\ pc = "failed" /\ result.text = RateLimitMessage
    /\ rerr.status = RateLimitStatus /\ invocations = DefaultMaxRetries
    /\ toolSteps = 1

\* C21: callAgent throws the rate-limit message if and only if the agent
\* node's retryWithBackoff made 3 backend attempts that all failed with
\* status 429 (with its 2 waits between them); while a call of the agent
\* node has seen fewer than 3 failures, all with status 429, the run goes on.
C21_RateLimitAfterRetries ==
    /\ result = Thrown(RateLimitMessage) <=>
          /\ pc = "failed" /\ rpc = "thrown"
          /\ Len(failures) = 3 /\ invocations = 3 /\ Len(waits) = 2
          /\ \A i \in 1..3 : failures[i].status = RateLimitStatus
    /\ (AllRateLimited /\ Len(failures) < 3) =>
          /\ rpc # "thrown"
          /\ pc = "agent" => result = NoResult /\ rpc \in {"call", "wait"}

C21_Witness ==
    /\ result = Thrown(RateLimitMessage) /\ invocations = 3
    /\ genEntries = 2 /\ Last(messages).role = "tool"

\* C22: a backend failure with status 401 is not retried: it is the last
\* backend call of the run, nothing is waited after it, the run has failed
\* and callAgent throws the authentication message; after a failed run the
\* next step, if any, is the start of another run.
C22_AuthFailureIsFatal ==
    /\ []((failures # <<>> /\ Last(failures).status = AuthStatus) =>
             /\ pc = "failed" /\ rpc = "thrown"
             /\ result = Thrown(AuthMessage)
             /\ invocations = Len(failures)
             /\ Len(waits) = Len(failures) - 1)
    /\ [](result = Thrown(AuthMessage) => Last(failures).status = AuthStatus)
    /\ [][pc = "failed" =>
             /\ pc' = "agent" /\ prior' = store.messages
             /\ genEntries' = 1 /\ invocations' = 0]_vars

C22_Witness ==
    /\ result = Thrown(AuthMessage) /\ Len(failures) = 2
    /\ failures[1].status = RateLimitStatus /\ toolSteps = 1

---------------------------------------------------------------------------
(* Properties of the tools node *)

\* the messages a step appended
Appended == SubSeq(messages', Len(messages) + 1, Len(messages'))

\* the text of the failure envelope of a lookup whose vector search threw
VectorFailureText == Stringify(ErrorEnvelope("vector", ToolQuery))

\* C23: a lookup that fails does not fail the run: every execution of the
\* tools node, also one whose lookup threw, leaves a tool message for every
\* tool call (the failure envelope in that case), throws nothing and is
\* followed by a call of the agent node; a run that has failed right after
\* tool results failed on a backend error of the agent node.
C23_ToolFailureIsContent ==
    /\ [][ToolStep =>
             /\ pc' = "agent" /\ result' = NoResult
             /\ genEntries' = genEntries + 1
             /\ \A j \in DOMAIN Last(messages).tool_calls :
                   \E i \in DOMAIN Appended :
                       /\ Appended[i].role = "tool"
                       /\ Appended[i].tool_call_id = Last(messages).tool_calls[j].id
                       /\ Appended[i].content.kind = "string"]_vars
    /\ []((pc = "failed" /\ Last(messages).role = "tool") =>
             rpc = "thrown" /\ failures # <<>>)

C23_Witness ==
    /\ pc = "agent" /\ Last(messages).role = "tool"
    /\ Last(messages).content.text = VectorFailureText
    /\ genEntries = 2

\* C25: an execution of the tools node on a message with tool calls
\* i1..ik appends exactly k messages and changes nothing before them: the
\* j-th is a tool message with the call id of ij.
C25_OneResultPerCallInOrder ==
    [][ToolStep =>
          LET toolCalls == Last(messages).tool_calls IN
          /\ Len(toolCalls) >= 1
          /\ Len(messages') = Len(messages) + Len(toolCalls)
          /\ SubSeq(messages', 1, Len(messages)) = messages
          /\ \A j \in DOMAIN toolCalls :
                /\ Appended[j].role = "tool"
                /\ Appended[j].tool_call_id = toolCalls[j].id
                /\ Appended[j].tool_calls = <<>>]_vars

C25_Witness ==
    /\ pc = "agent" /\ Len(messages) >= 4
    /\ Len(messages[Len(messages) - 2].tool_calls) = 2
    /\ messages[Len(messages) - 1].tool_call_id = messages[Len(messages) - 2].tool_calls[1].id
    /\ Last(messages).tool_call_id = messages[Len(messages) - 2].tool_calls[2].id
    /\ Last(messages).tool_call_id # messages[Len(messages) - 1].tool_call_id

\* the position of the newest assistant message
LastAssistant(msgs) ==
    CHOOSE i \in DOMAIN msgs :
        /\ msgs[i].role = "assistant"
        /\ \A j \in (i + 1)..Len(msgs) : msgs[j].role # "assistant"

\* C27: within a run the agent node and the tools node alternate and never
\* overlap: the tools node runs only when the call of the agent node has
\* returned a message with tool calls, the agent node is called again only
\* when every call of that message has its result appended, and neither
\* node runs twice in a row.
C27_StrictAlternation ==
    /\ [](pc = "tools" =>
             /\ rpc = "returned"
             /\ Last(messages).role = "assistant"
             /\ Last(messages).tool_calls # <<>>
             /\ genEntries = toolSteps + 1)
    /\ [](pc = "agent" =>
             /\ rpc \in {"call", "wait"}
             /\ genEntries = toolSteps + 1
             /\ Last(messages).role \in {"user", "tool"}
             /\ toolSteps > 0 =>
                   LET a == LastAssistant(messages) IN
                   /\ a > Len(prior) + 1
                   /\ Len(messages) = a + Len(messages[a].tool_calls)
                   /\ \A j \in DOMAIN messages[a].tool_calls :
                         messages[a + j].tool_call_id = messages[a].tool_calls[j].id)
    /\ [][GenerationStep => pc' # "agent"]_vars
    /\ [][ToolStep => pc' # "tools"]_vars

C27_Witness ==
    /\ pc = "agent" /\ toolSteps = 2 /\ genEntries = 3
    /\ Len(messages[LastAssistant(messages)].tool_calls) = 2

---------------------------------------------------------------------------
(* Properties of the checkpoints *)

\* msgs[i] is a tool result that answers, in its place, a call of the
\* assistant message before its block
AnswersACall(msgs, i) ==
    \E a \in 1..(i - 1) :
        /\ msgs[a].role = "assistant"
        /\ i <= a + Len(msgs[a].tool_calls)
        /\ msgs[i].tool_call_id = msgs[a].tool_calls[i - a].id

\* the tool results that follow msgs[a] are those of a whole tools step
WholeToolStep(msgs, a) ==
    (a < Len(msgs) /\ msgs[a + 1].role = "tool") =>
        /\ Len(msgs) >= a + Len(msgs[a].tool_calls)
        /\ \A j \in DOMAIN msgs[a].tool_calls :
              /\ msgs[a + j].role = "tool"
              /\ msgs[a + j].tool_call_id = msgs[a].tool_calls[j].id

\* C29: what is saved for the thread is always the state at a node boundary:
\* it is the state of the run as the last finished step left it, with every
\* tool result in it part of a whole tools step; this also holds when the
\* run has failed.
C29_CheckpointsAtNodeBoundaries ==
    /\ pc # "idle" => store.messages = messages
    /\ \A i \in DOMAIN store.messages :
          /\ store.messages[i].role = "tool" => AnswersACall(store.messages, i)
          /\ store.messages[i].role = "assistant" => WholeToolStep(store.messages, i)
    /\ pc = "idle" => store.messages = <<>>

C29_Witness ==
    /\ pc = "failed" /\ rpc = "thrown" /\ store.messages = messages
    /\ Last(store.messages).role = "tool"
    /\ Len(store.messages[Len(store.messages) - 2].tool_calls) = 2

\* the write of the checkpoint that holds the run's last message failed
LastSaveFailed == ~InRun /\ pc # "idle" /\ store.messages # messages

\* C24 as stated: when the run has produced its final assistant message and
\* the write of the checkpoint fails, callAgent still returns the content
\* of that message.
C24_Original ==
    (/\ LastSaveFailed
     /\ Last(messages).role = "assistant"
     /\ Last(messages).tool_calls = <<>>) =>
        result = Returned(TextOf(Last(messages).content))

\* the tool results in msgs, after position a, for the call with this id
ResultsFor(msgs, a, id) ==
    {i \in DOMAIN msgs : i > a /\ msgs[i].role = "tool" /\ msgs[i].tool_call_id = id}

\* C26 as stated: whenever a call of the agent node starts, every tool call
\* in the messages has exactly one tool result with its id, placed after
\* it, also in a run that resumes a thread whose previous run failed.
C26_Original ==
    (pc = "agent" /\ rpc = "call" /\ invocations = 0) =>
        \A a \in DOMAIN messages :
            \A j \in DOMAIN messages[a].tool_calls :
                Cardinality(ResultsFor(messages, a, messages[a].tool_calls[j].id)) = 1

---------------------------------------------------------------------------
(* Properties of the server *)

\* C30 as stated: no two requests that start a conversation receive the
\* same threadId, also when they are handled in the same millisecond.
C30_Original ==
    \A i, j \in DOMAIN issued : i # j => issued[i] # issued[j]

---------------------------------------------------------------------------
(* Properties of the agent node and of the end of the retry loop *)

\* C33: a call of the agent node changes the messages only when it succeeds:
\* an attempt that fails, a wait and the final failure leave the messages and
\* the checkpoint as they are, and the attempt that succeeds appends exactly
\* one assistant message, the backend's response, however many attempts
\* failed before it.
C33_OnlySuccessAppends ==
    [][pc = "agent" =>
          IF rpc' = "returned"
          THEN /\ Len(messages') = Len(messages) + 1
               /\ SubSeq(messages', 1, Len(messages)) = messages
               /\ Last(messages').role = "assistant"
               /\ rval' = [messages |-> <<Last(messages')>>]
               /\ Len(failures') < maxRetries
          ELSE /\ messages' = messages
               /\ store' = store
               /\ pc' \in {"agent", "failed"}]_vars

C33_Witness ==
    /\ pc = "tools" /\ rpc = "returned" /\ Len(failures) = 2 /\ invocations = 3
    /\ Len(messages) = Len(prior) + 2

\* C34: retryWithBackoff throws "Max retries exceeded" only when maxRetries
\* is 0 or less, and then fn is never called; with maxRetries 1 or more that
\* error is never thrown and whatever the call throws is the error fn
\* rejected with last.
C34_MaxRetriesErrorOnlyWithoutAttempts ==
    /\ rerr = MaxRetriesError =>
          maxRetries <= 0 /\ rpc = "thrown" /\ invocations = 0 /\ failures = <<>>
    /\ (maxRetries <= 0 /\ rpc # "idle") =>
          rpc = "thrown" /\ rerr = MaxRetriesError /\ invocations = 0
    /\ (maxRetries >= 1 /\ rpc = "thrown") =>
          /\ failures # <<>>
          /\ rerr = Last(failures)
          /\ rerr \in OpErrors
          /\ invocations = Len(failures)

C34_Witness ==
    /\ rpc = "thrown" /\ maxRetries = 0 /\ rerr = MaxRetriesError
    /\ invocations = 0 /\ waits = <<>>

---------------------------------------------------------------------------
(* Properties of the generation step and of runs on several threads *)

C31_ThreadsDoNotInterfere ==
    \A t \in ThreadIds :
        LET r == runs[t] IN
        /\ r.pc = "idle" => StoreKey(t) \notin DOMAIN threads
        /\ r.pc # "idle" => Saved(StoreKey(t)) = r.messages
        /\ Len(r.messages) <= Len(r.alone)
        /\ r.messages = SubSeq(r.alone, 1, Len(r.messages))
        /\ r.pc \in {"returned", "failed"}
              => /\ r.messages = r.alone
                 /\ r.result = r.aloneResult
        /\ ThreadInRun(t) => r.result = NoResult

C31_Witness ==
    /\ runs["A"].pc = "returned"
    /\ runs["B"].pc = "returned"
    /\ runs["A"].overlapped
    /\ runs["B"].overlapped
    /\ Len(runs["A"].messages) = 4
    /\ Len(runs["B"].messages) = 5
    /\ Saved("A") # Saved("B")

===========================================================================
